---- MODULE Spec2Model ----
(***************************************************************************)
(* qbittorrent-automate: the cleanup pass of QBittorrentAutoMate           *)
(* (connect, list, evaluate, delete) and the process driver main() with    *)
(* its interval scheduler, as a state machine.                             *)
(*                                                                         *)
(* Units: share ratios are in tenths (2.0 is 20), seeding_time is in       *)
(* seconds, seeding_time_limit in minutes, time advances in ticks of which *)
(* IntervalTicks make one scheduler interval.                              *)
(***************************************************************************)
EXTENDS Integers, Sequences, FiniteSets, TLC

\* ---------------------------------------------------------------- bounds
\* number of torrents the server holds when the process starts
MaxTorrents == 2
\* ticks of the model clock in one scheduler interval
IntervalTicks == 2

\* ------------------------------------------------------ program constants
\* RATIO_LIMIT default '2.0', in tenths
DefaultRatioLimit == 20
\* SEEDING_TIME_LIMIT default '120' (minutes)
DefaultSeedingTimeLimit == 120
\* seconds in a minute: seeding_time / 60
SecondsPerMinute == 60
\* the scheduler's default number of running instances of one job
max_instances_default == 1
\* a job allowed one more running instance
max_instances_two == max_instances_default + 1
\* add_job is called without max_instances: the scheduler's default applies
max_instances == max_instances_default

\* -------------------------------------------------------------- domains
None == "None"
Client == "Client"
\* a key the listing left out of a torrent dictionary
Missing == -1

Tags == {"", "movies"}
ParamNames == {"url", "username", "password"}

Hashes == 1..MaxTorrents

\* ratio (tenths) and seeding_time (seconds) of the torrents the server may
\* hold: at the ratio limit, at the seeding limit, below both, and a record
\* that lacks the seeding_time key
TorrentStats ==
    { [ratio |-> DefaultRatioLimit, seeding_time |-> 3600],
      [ratio |-> 5, seeding_time |-> DefaultSeedingTimeLimit * SecondsPerMinute],
      [ratio |-> 5, seeding_time |-> 3000],
      [ratio |-> 5, seeding_time |-> Missing] }

TorrentRecords ==
    { [tags |-> g, ratio |-> s.ratio, seeding_time |-> s.seeding_time] :
        g \in Tags, s \in TorrentStats }

\* configurations: load_config always fills the connection parameters; a
\* caller constructing QBittorrentAutoMate directly may leave one out
Configs ==
    { [params |-> p, ratio_limit |-> DefaultRatioLimit,
       seeding_time_limit |-> DefaultSeedingTimeLimit,
       exclude_tags |-> e, include_tags |-> i, delete_files |-> d] :
        p \in {ParamNames} \cup {ParamNames \ {x} : x \in ParamNames},
        e \in {{}, {"movies"}}, i \in {{}, {"movies"}, {""}}, d \in BOOLEAN }

\* policies and records a caller may hand to should_delete_torrent directly:
\* limits at and above the defaults, values below, at and above each limit
PolicyTags == Tags \cup {"tv"}

PolicyRecords ==
    { [tags |-> g, ratio |-> r, seeding_time |-> t] :
        g \in PolicyTags,
        r \in {5, DefaultRatioLimit - 1, DefaultRatioLimit, DefaultRatioLimit + 5},
        t \in {3000, DefaultSeedingTimeLimit * SecondsPerMinute - 1,
               DefaultSeedingTimeLimit * SecondsPerMinute, 9000} }

PolicyConfigs ==
    { [params |-> ParamNames, ratio_limit |-> rl, seeding_time_limit |-> sl,
       exclude_tags |-> e, include_tags |-> i, delete_files |-> FALSE] :
        rl \in {DefaultRatioLimit, DefaultRatioLimit + 5},
        sl \in {DefaultSeedingTimeLimit, DefaultSeedingTimeLimit + 30},
        e \in {{}, {"movies"}, {"tv"}}, i \in {{}, {"movies"}, {"", "tv"}} }

\* outcomes of the network part of connect_qbittorrent
ConnOutcomes == {"ok", "network", "auth"}

VARIABLES
    qb_config,      \* the resolved configuration held by the cleaner
    torrents,       \* server side: hash -> torrent dictionary
    inventory,      \* server side: hashes of the completed torrents it holds
    qb,             \* self.qb: None or a Client
    pc,             \* position of the main thread
    instances,      \* running instances of job 'qb_cleanup' in the executor
    phase,          \* position inside cleanup_torrents ("idle": never entered yet)
    listing,        \* completed_torrents of the pass (hashes in listing order)
    idx,            \* index of the record the for loop is at
    deleted_count,  \* deleted_count of the pass
    calls,          \* torrents_delete calls issued by the pass
    listCalls,      \* torrents_info calls issued by the pass
    evals,          \* records the pass handed to should_delete_torrent, in order
    errors,         \* logger.error entries of the pass
    summary,        \* the pass logged its closing summary (line 157)
    connResult,     \* outcome of the last connect attempt, "none" if the pass made none
    connRet,        \* what connect_qbittorrent returned
    prevPass,       \* how the pass before the current one ended
    sinceFire,      \* ticks since the last fire time of the interval trigger
    sinceStart,     \* ticks since the last pass started, capped at IntervalTicks
    missed,         \* a fire time was skipped because an instance was running
    stopSignal,     \* KeyboardInterrupt was delivered to the main thread
    verdict         \* the last direct call of should_delete_torrent: <<>> or <<record and result>>

vars == <<qb_config, torrents, inventory, qb, pc, instances, phase, listing, idx,
          deleted_count, calls, listCalls, errors, summary, connResult, connRet,
          prevPass, sinceFire, sinceStart, missed, stopSignal, evals, verdict>>

\* what no step of the process writes
configVars == <<qb_config, torrents, verdict>>
passVars == <<phase, listing, idx, deleted_count, calls, listCalls, evals, errors,
              summary, connResult, connRet, prevPass, qb, inventory>>
clockVars == <<sinceFire, sinceStart, missed>>

\* ------------------------------------------------------------- helpers
Min(a, b) == IF a <= b THEN a ELSE b

\* positions in the error log of the pass of the entries of one kind
ErrorsOf(kind) == { i \in 1..Len(errors) : errors[i][1] = kind }

RECURSIVE SortedSeq(_)
\* the listing the server returns: its completed torrents in hash order
SortedSeq(S) ==
    IF S = {} THEN <<>>
    ELSE LET m == CHOOSE x \in S : \A y \in S : x <= y
         IN <<m>> \o SortedSeq(S \ {m})

\* ------------------------------------------------- should_delete_torrent
\* lines 97-103: the two tag gates
PassesTagGates(torrent) ==
    /\ torrent.tags \notin qb_config.exclude_tags
    /\ ~(qb_config.include_tags # {} /\ torrent.tags \notin qb_config.include_tags)

\* lines 106-107: torrent['seeding_time'] raises KeyError for a record
\* without that key, once the tag gates have let the record through
EvalRaises(torrent) ==
    PassesTagGates(torrent) /\ torrent.seeding_time = Missing

\* the policy with the include list consulted before the exclude list
should_delete_torrent_include_first(torrent) ==
    IF qb_config.include_tags # {}
    THEN /\ torrent.tags \in qb_config.include_tags
         /\ \/ torrent.ratio >= qb_config.ratio_limit
            \/ torrent.seeding_time >= qb_config.seeding_time_limit * SecondsPerMinute
    ELSE IF torrent.tags \in qb_config.exclude_tags THEN FALSE
    ELSE \/ torrent.ratio >= qb_config.ratio_limit
         \/ torrent.seeding_time >= qb_config.seeding_time_limit * SecondsPerMinute

\* the policy with the include list applied to tagged records only
should_delete_torrent_untagged_free(torrent) ==
    IF torrent.tags \in qb_config.exclude_tags THEN FALSE
    ELSE IF qb_config.include_tags # {} /\ torrent.tags # ""
            /\ torrent.tags \notin qb_config.include_tags
         THEN FALSE
    ELSE \/ torrent.ratio >= qb_config.ratio_limit
         \/ torrent.seeding_time >= qb_config.seeding_time_limit * SecondsPerMinute

\* the policy with the seeding limit compared strictly
should_delete_torrent_strict(torrent) ==
    IF torrent.tags \in qb_config.exclude_tags THEN FALSE
    ELSE IF qb_config.include_tags # {} /\ torrent.tags \notin qb_config.include_tags
         THEN FALSE
    ELSE \/ torrent.ratio >= qb_config.ratio_limit
         \/ torrent.seeding_time > qb_config.seeding_time_limit * SecondsPerMinute

\* lines 94-114; seeding_time / 60 >= limit is compared without rounding
should_delete_torrent(torrent) ==
    IF torrent.tags \in qb_config.exclude_tags THEN FALSE
    ELSE IF qb_config.include_tags # {} /\ torrent.tags \notin qb_config.include_tags
         THEN FALSE
    ELSE \/ torrent.ratio >= qb_config.ratio_limit
         \/ torrent.seeding_time >= qb_config.seeding_time_limit * SecondsPerMinute

\* --------------------------------------------------- connect_qbittorrent
\* connect_qbittorrent without the test of lines 70-73
connect_qbittorrent_unchecked(o) ==
    IF o = "network"
    THEN [ret |-> FALSE, qb |-> Client, result |-> "network",
          errors |-> <<<<"ConnectionError", 0>>>>]
    ELSE IF o = "auth"
    THEN [ret |-> TRUE, qb |-> Client, result |-> "auth",
          errors |-> <<<<"ConnectionError", 0>>>>]
    ELSE [ret |-> TRUE, qb |-> Client, result |-> "ok", errors |-> <<>>]

\* lines 67-92: result of the property for network outcome o
connect_qbittorrent(o) ==
    IF qb_config.params # ParamNames
    THEN [ret |-> FALSE, qb |-> qb, result |-> "config",
          errors |-> <<<<"ConfigurationError", 0>>>>]
    ELSE IF o = "network"
    THEN [ret |-> FALSE, qb |-> Client, result |-> "network",
          errors |-> <<<<"ConnectionError", 0>>>>]
    ELSE IF o = "auth"
    THEN [ret |-> TRUE, qb |-> Client, result |-> "auth",
          errors |-> <<<<"ConnectionError", 0>>>>]
    ELSE [ret |-> TRUE, qb |-> Client, result |-> "ok", errors |-> <<>>]

\* ------------------------------------------------------ cleanup_torrents
\* how the pass that is ending went, for the next pass to look back on
PassOutcome ==
    IF phase = "idle" THEN "none"
    ELSE IF summary /\ errors = <<>> THEN "clean" ELSE "faulty"

\* lines 139-145: entry of cleanup_torrents, connecting when self.qb is unset
cleanup_begin(o) ==
    LET c == connect_qbittorrent(o) IN
    /\ listing' = <<>>
    /\ idx' = 0
    /\ deleted_count' = 0
    /\ calls' = <<>>
    /\ listCalls' = 0
    /\ evals' = <<>>
    /\ summary' = FALSE
    /\ prevPass' = PassOutcome
    /\ IF qb = None
       THEN /\ qb' = c.qb
            /\ connResult' = c.result
            /\ connRet' = c.ret
            /\ errors' = c.errors
            /\ phase' = IF c.ret THEN "list" ELSE "end"
       ELSE /\ qb' = qb
            /\ connResult' = "none"
            /\ connRet' = connRet
            /\ errors' = <<>>
            /\ phase' = "list"

\* the listing call falling back, when it fails, on what the first pass listed
get_completed_torrents_cached(ok) ==
    /\ phase = "list"
    /\ listCalls' = listCalls + 1
    /\ IF ok
       THEN /\ listing' = SortedSeq(inventory)
            /\ errors' = errors
       ELSE /\ listing' = IF prevPass = "none" THEN <<>> ELSE SortedSeq(Hashes)
            /\ errors' = Append(errors, <<"ListingError", 0>>)
    /\ idx' = 1
    /\ phase' = "records"
    /\ UNCHANGED <<deleted_count, calls, evals, summary, connResult, connRet, prevPass,
                   qb, inventory>>

\* lines 116-123 and 148-151: the listing call
get_completed_torrents(ok) ==
    /\ phase = "list"
    /\ listCalls' = listCalls + 1
    /\ IF ok
       THEN /\ listing' = SortedSeq(inventory)
            /\ errors' = errors
       ELSE /\ listing' = <<>>
            /\ errors' = Append(errors, <<"ListingError", 0>>)
    /\ idx' = 1
    /\ phase' = "records"
    /\ UNCHANGED <<deleted_count, calls, evals, summary, connResult, connRet, prevPass,
                   qb, inventory>>

\* delete_torrent reporting success whatever the call did
delete_torrent_always_true(h, ok) ==
    /\ calls' = Append(calls, [hash |-> h, delete_files |-> qb_config.delete_files])
    /\ inventory' = IF ok THEN inventory \ {h} ELSE inventory
    /\ deleted_count' = deleted_count + 1
    /\ errors' = errors

\* the count going up with every delete call, failed ones too
delete_torrent_count_attempts(h, ok) ==
    /\ calls' = Append(calls, [hash |-> h, delete_files |-> qb_config.delete_files])
    /\ deleted_count' = deleted_count + 1
    /\ IF ok
       THEN /\ inventory' = inventory \ {h}
            /\ errors' = errors
       ELSE /\ inventory' = inventory
            /\ errors' = Append(errors, <<"DeletionError", h>>)

\* delete_torrent called without its delete_files argument
delete_torrent_default_flag(h, ok) ==
    /\ calls' = Append(calls, [hash |-> h, delete_files |-> FALSE])
    /\ IF ok
       THEN /\ inventory' = inventory \ {h}
            /\ deleted_count' = deleted_count + 1
            /\ errors' = errors
       ELSE /\ inventory' = inventory
            /\ deleted_count' = deleted_count
            /\ errors' = Append(errors, <<"DeletionError", h>>)

\* lines 125-137: one torrents_delete call and its outcome
delete_torrent(h, ok) ==
    /\ calls' = Append(calls, [hash |-> h, delete_files |-> qb_config.delete_files])
    /\ IF ok
       THEN /\ inventory' = inventory \ {h}
            /\ deleted_count' = deleted_count + 1
            /\ errors' = errors
       ELSE /\ inventory' = inventory
            /\ deleted_count' = deleted_count
            /\ errors' = Append(errors, <<"DeletionError", h>>)

\* the for loop with a failed deletion ending the loop instead of moving on
cleanup_record_stop_on_failure(ok) ==
    /\ phase = "records"
    /\ idx <= Len(listing)
    /\ LET h == listing[idx]
           torrent == torrents[h]
       IN IF EvalRaises(torrent)
          THEN /\ errors' = Append(errors, <<"UnexpectedPassError", h>>)
               /\ phase' = "end"
               /\ UNCHANGED <<idx, calls, inventory, deleted_count>>
          ELSE /\ phase' = phase
               /\ IF should_delete_torrent(torrent)
                  THEN /\ delete_torrent(h, ok)
                       /\ idx' = IF ok THEN idx + 1 ELSE Len(listing) + 1
                  ELSE /\ idx' = idx + 1
                       /\ UNCHANGED <<calls, inventory, deleted_count, errors>>
    /\ evals' = Append(evals, listing[idx])
    /\ UNCHANGED <<listing, listCalls, summary, connResult, connRet, prevPass, qb>>

\* the for loop with a failed deletion tried a second time
cleanup_record_retry(ok) ==
    /\ phase = "records"
    /\ idx <= Len(listing)
    /\ LET h == listing[idx]
           torrent == torrents[h]
           call == [hash |-> h, delete_files |-> qb_config.delete_files]
       IN IF EvalRaises(torrent)
          THEN /\ errors' = Append(errors, <<"UnexpectedPassError", h>>)
               /\ phase' = "end"
               /\ UNCHANGED <<idx, calls, inventory, deleted_count>>
          ELSE /\ idx' = idx + 1
               /\ phase' = phase
               /\ IF should_delete_torrent(torrent)
                  THEN IF ok
                       THEN delete_torrent(h, ok)
                       ELSE /\ calls' = calls \o <<call, call>>
                            /\ errors' = Append(errors, <<"DeletionError", h>>)
                            /\ UNCHANGED <<inventory, deleted_count>>
                  ELSE UNCHANGED <<calls, inventory, deleted_count, errors>>
    /\ evals' = Append(evals, listing[idx])
    /\ UNCHANGED <<listing, listCalls, summary, connResult, connRet, prevPass, qb>>

\* lines 152-155, 159-160: one iteration of the for loop
cleanup_record(ok) ==
    /\ phase = "records"
    /\ idx <= Len(listing)
    /\ LET h == listing[idx]
           torrent == torrents[h]
       IN IF EvalRaises(torrent)
          THEN /\ errors' = Append(errors, <<"UnexpectedPassError", h>>)
               /\ phase' = "end"
               /\ UNCHANGED <<idx, calls, inventory, deleted_count>>
          ELSE /\ idx' = idx + 1
               /\ phase' = phase
               /\ IF should_delete_torrent(torrent)
                  THEN delete_torrent(h, ok)
                  ELSE UNCHANGED <<calls, inventory, deleted_count, errors>>
    /\ evals' = Append(evals, listing[idx])
    /\ UNCHANGED <<listing, listCalls, summary, connResult, connRet, prevPass, qb>>

\* line 157: the loop is over, the summary is logged
cleanup_summary ==
    /\ phase = "records"
    /\ idx > Len(listing)
    /\ summary' = TRUE
    /\ phase' = "end"
    /\ UNCHANGED <<listing, idx, deleted_count, calls, listCalls, evals, errors, connResult,
                   connRet, prevPass, qb, inventory>>

\* the process running the pass is alive
PassAlive == pc \in {"first_pass", "sched", "shutdown", "api_pass"}

ListStep ==
    /\ PassAlive
    /\ \E ok \in BOOLEAN : get_completed_torrents(ok)
    /\ UNCHANGED <<configVars, pc, instances, clockVars, stopSignal>>

\* the for loop without the try of lines 147-160 around it: an exception
\* raised while a record is evaluated leaves cleanup_torrents, and in the main
\* thread it ends the process
RecordStep_uncaught ==
    /\ PassAlive
    /\ \E ok \in BOOLEAN : cleanup_record(ok)
    /\ pc' = IF pc = "first_pass" /\ phase' = "end" /\ ErrorsOf("UnexpectedPassError")' # {}
             THEN "exit" ELSE pc
    /\ UNCHANGED <<configVars, instances, clockVars, stopSignal>>

RecordStep ==
    /\ PassAlive
    /\ \E ok \in BOOLEAN : cleanup_record(ok)
    /\ UNCHANGED <<configVars, pc, instances, clockVars, stopSignal>>

SummaryStep ==
    /\ PassAlive
    /\ cleanup_summary
    /\ UNCHANGED <<configVars, pc, instances, clockVars, stopSignal>>

\* ------------------------------------------------------------------ main
\* lines 186-201: load the configuration, build the cleaner, test the connection
MainConnect ==
    /\ pc = "start"
    /\ \E o \in ConnOutcomes :
         LET c == connect_qbittorrent(o) IN
         /\ qb' = c.qb
         /\ connResult' = c.result
         /\ connRet' = c.ret
         /\ errors' = c.errors
         /\ pc' = IF c.ret THEN "connected" ELSE "exit"
    /\ UNCHANGED <<configVars, inventory, instances, phase, listing, idx, deleted_count,
                   calls, listCalls, evals, summary, prevPass, clockVars, stopSignal>>

\* main without line 217: the scheduler is started and the first pass is left
\* to the trigger
FirstPass_left_to_trigger ==
    /\ pc = "connected"
    /\ pc' = "sched"
    /\ sinceFire' = 0
    /\ sinceStart' = 0
    /\ UNCHANGED <<configVars, passVars, instances, missed, stopSignal>>

\* lines 203-217: the trigger is created (its first fire time is one interval
\* from now), the job is added, and the first pass is entered at once
FirstPass ==
    /\ pc = "connected"
    /\ \E o \in ConnOutcomes : cleanup_begin(o)
    /\ pc' = "first_pass"
    /\ sinceFire' = 0
    /\ sinceStart' = 0
    /\ UNCHANGED <<configVars, inventory, instances, missed, stopSignal>>

\* main giving up when the first pass logged an error
SchedulerStart_exit_on_error ==
    /\ pc = "first_pass"
    /\ phase = "end"
    /\ pc' = IF errors = <<>> THEN "sched" ELSE "exit"
    /\ phase' = "returned"
    /\ UNCHANGED <<configVars, inventory, qb, instances, listing, idx, deleted_count,
                   calls, listCalls, evals, errors, summary, connResult, connRet, prevPass,
                   clockVars, stopSignal>>

\* lines 217-222: the first pass returns and scheduler.start() blocks the main thread
SchedulerStart ==
    /\ pc = "first_pass"
    /\ phase = "end"
    /\ pc' = "sched"
    /\ phase' = "returned"
    /\ UNCHANGED <<configVars, inventory, qb, instances, listing, idx, deleted_count,
                   calls, listCalls, evals, errors, summary, connResult, connRet, prevPass,
                   clockVars, stopSignal>>

\* time passes without reaching a fire time the scheduler acts on: either the
\* interval is not over, or the scheduler has not been started yet
Tick ==
    /\ pc \in {"first_pass", "sched"}
    /\ \/ sinceFire + 1 < IntervalTicks
       \/ pc = "first_pass"
    /\ sinceFire' = (sinceFire + 1) % IntervalTicks
    /\ sinceStart' = Min(sinceStart + 1, IntervalTicks)
    /\ UNCHANGED <<configVars, passVars, pc, instances, missed, stopSignal>>

\* the interval trigger fires and the executor runs cleanup_torrents
Fire ==
    /\ pc = "sched"
    /\ sinceFire + 1 = IntervalTicks
    /\ instances < max_instances
    /\ \E o \in ConnOutcomes : cleanup_begin(o)
    /\ instances' = instances + 1
    /\ sinceFire' = 0
    /\ sinceStart' = 0
    /\ missed' = FALSE
    /\ UNCHANGED <<configVars, inventory, pc, stopSignal>>

\* the interval trigger fires while an instance is running: the run is skipped
FireSkipped ==
    /\ pc = "sched"
    /\ sinceFire + 1 = IntervalTicks
    /\ instances >= max_instances
    /\ sinceFire' = 0
    /\ sinceStart' = Min(sinceStart + 1, IntervalTicks)
    /\ missed' = TRUE
    /\ UNCHANGED <<configVars, passVars, pc, instances, stopSignal>>

\* the scheduler shut down by a job whose pass logged an error
JobReturn_stop_on_error ==
    /\ pc \in {"sched", "shutdown"}
    /\ instances > 0
    /\ phase = "end"
    /\ instances' = instances - 1
    /\ phase' = "returned"
    /\ pc' = IF errors = <<>> THEN pc ELSE "stopped"
    /\ UNCHANGED <<configVars, inventory, qb, listing, idx, deleted_count, calls,
                   listCalls, evals, errors, summary, connResult, connRet, prevPass, clockVars,
                   stopSignal>>

\* the job's cleanup_torrents returns in its worker thread
JobReturn ==
    /\ pc \in {"sched", "shutdown"}
    /\ instances > 0
    /\ phase = "end"
    /\ instances' = instances - 1
    /\ phase' = "returned"
    /\ UNCHANGED <<configVars, inventory, qb, pc, listing, idx, deleted_count, calls,
                   listCalls, evals, errors, summary, connResult, connRet, prevPass, clockVars,
                   stopSignal>>

\* KeyboardInterrupt swallowed while the scheduler waits: the loop goes on
Interrupt_swallowed ==
    /\ pc \in {"first_pass", "sched"}
    /\ pc' = IF pc = "first_pass" THEN "killed" ELSE "sched"
    /\ stopSignal' = TRUE
    /\ UNCHANGED <<configVars, passVars, instances, clockVars>>

\* KeyboardInterrupt in the main thread. During the first pass (line 217) it
\* is outside the try of lines 221-228 and is no Exception, so nothing catches
\* it and the process dies where it stands; inside scheduler.start() it is
\* caught at line 223 and scheduler.shutdown() follows.
Interrupt ==
    /\ pc \in {"first_pass", "sched"}
    /\ pc' = IF pc = "first_pass" THEN "killed" ELSE "shutdown"
    /\ stopSignal' = TRUE
    /\ UNCHANGED <<configVars, passVars, instances, clockVars>>

\* line 228: scheduler.shutdown() waits for the running job, then main returns
Shutdown ==
    /\ pc = "shutdown"
    /\ instances = 0
    /\ pc' = "stopped"
    /\ UNCHANGED <<configVars, passVars, instances, clockVars, stopSignal>>

\* ------------------------------------------- direct use of the cleaner
\* a caller invokes cleanup_torrents on the cleaner it constructed
CallCleanup ==
    /\ pc \in {"start", "api"}
    /\ \E o \in ConnOutcomes : cleanup_begin(o)
    /\ pc' = "api_pass"
    /\ UNCHANGED <<configVars, inventory, instances, clockVars, stopSignal>>

\* cleanup_torrents returns to its caller
CallReturn ==
    /\ pc = "api_pass"
    /\ phase = "end"
    /\ pc' = "api"
    /\ phase' = "returned"
    /\ UNCHANGED <<configVars, inventory, qb, instances, listing, idx, deleted_count,
                   calls, listCalls, evals, errors, summary, connResult, connRet, prevPass,
                   clockVars, stopSignal>>

\* ---------------------------------------------------------- specifications
Init ==
    /\ qb_config \in Configs
    /\ torrents \in [Hashes -> TorrentRecords]
    /\ inventory = Hashes
    /\ qb = None
    /\ pc = "start"
    /\ instances = 0
    /\ phase = "idle"
    /\ listing = <<>>
    /\ idx = 0
    /\ deleted_count = 0
    /\ calls = <<>>
    /\ listCalls = 0
    /\ evals = <<>>
    /\ errors = <<>>
    /\ summary = FALSE
    /\ connResult = "none"
    /\ connRet = FALSE
    /\ prevPass = "none"
    /\ sinceFire = 0
    /\ sinceStart = 0
    /\ missed = FALSE
    /\ stopSignal = FALSE
    /\ verdict = <<>>

\* the process: main() and the scheduler it starts
Next ==
    \/ MainConnect
    \/ FirstPass
    \/ ListStep
    \/ RecordStep
    \/ SummaryStep
    \/ SchedulerStart
    \/ Tick
    \/ Fire
    \/ FireSkipped
    \/ JobReturn
    \/ Interrupt
    \/ Shutdown

Spec == Init /\ [][Next]_vars

\* the scheduler's clock keeps running and every thread that can take its
\* next step does; the stop signal is the operator's to send or not
FairSpec ==
    /\ Spec
    /\ WF_vars(ListStep) /\ WF_vars(RecordStep) /\ WF_vars(SummaryStep)
    /\ WF_vars(SchedulerStart) /\ WF_vars(JobReturn)
    /\ WF_vars(Tick) /\ WF_vars(Fire) /\ WF_vars(FireSkipped)
    /\ WF_vars(Shutdown)

\* the cleaner driven directly by a caller, one cleanup_torrents call after another
NextCall ==
    \/ CallCleanup
    \/ ListStep
    \/ RecordStep
    \/ SummaryStep
    \/ CallReturn

SpecCall == Init /\ [][NextCall]_vars

\* ------------------------------------------- direct use of the policy
\* a caller hands one record to should_delete_torrent of the cleaner it built
CallShouldDelete ==
    /\ pc = "start"
    /\ \E r \in PolicyRecords :
         verdict' = <<[torrent |-> r, ret |-> should_delete_torrent(r)]>>
    /\ UNCHANGED <<qb_config, torrents, passVars, pc, instances, clockVars, stopSignal>>

\* a cleaner built with one of the policies, nothing called yet
InitPolicy ==
    /\ qb_config \in PolicyConfigs
    /\ torrents = [h \in Hashes |-> [tags |-> "", ratio |-> 0, seeding_time |-> 0]]
    /\ inventory = Hashes
    /\ qb = None
    /\ pc = "start"
    /\ instances = 0
    /\ phase = "idle"
    /\ listing = <<>>
    /\ idx = 0
    /\ deleted_count = 0
    /\ calls = <<>>
    /\ listCalls = 0
    /\ evals = <<>>
    /\ errors = <<>>
    /\ summary = FALSE
    /\ connResult = "none"
    /\ connRet = FALSE
    /\ prevPass = "none"
    /\ sinceFire = 0
    /\ sinceStart = 0
    /\ missed = FALSE
    /\ stopSignal = FALSE
    /\ verdict = <<>>

NextPolicy == CallShouldDelete

SpecPolicy == InitPolicy /\ [][NextPolicy]_vars

\* ------------------------------------------------------- views for the claims
\* positions of the listing the retention policy marks for deletion
Marked == { i \in 1..Len(listing) : should_delete_torrent(torrents[listing[i]]) }

\* hashes the pass issued a delete call for
Called == { calls[j].hash : j \in 1..Len(calls) }

\* passes executing now: the first pass in the main thread and the job's instances
RunningPasses == (IF pc = "first_pass" THEN 1 ELSE 0) + instances

\* the scheduler loop's state
LoopState ==
    IF pc \in {"start", "connected"} THEN "Idle"
    ELSE IF pc \in {"exit", "killed", "stopped"} THEN "Stopped"
    ELSE IF RunningPasses > 0 THEN "Running"
    ELSE "Waiting"

\* ------------------------------------------------------------------ claims
\* C1: a pass that ran through its listing with exactly one failed delete call
\* (and no other fault) has issued one delete call for each of the N records
\* the policy marks, logged one error, for that record, and counted N-1.
PartialFailureIsolation ==
    (phase = "end" /\ Cardinality(ErrorsOf("DeletionError")) = 1
        /\ ErrorsOf("UnexpectedPassError") = {})
    => /\ Len(calls) = Cardinality(Marked)
       /\ Called = { listing[i] : i \in Marked }
       /\ Len(errors) = 1
       /\ errors[1][2] \in Called
       /\ deleted_count = Cardinality(Marked) - 1
       /\ summary

\* C1 witness: the first of two marked records failed, the second was still deleted
PartialFailureWitness ==
    /\ phase = "end"
    /\ Len(calls) = 2
    /\ errors = <<<<"DeletionError", calls[1].hash>>>>
    /\ deleted_count = 1

\* C2: a pass whose own connection attempt failed (network or authentication)
\* issues no listing call and no delete call, and connect returned False.
ConnectFailureAbortsPass ==
    (pc \in {"api_pass", "api"} /\ connResult \in {"network", "auth"})
    => /\ connRet = FALSE
       /\ listCalls = 0
       /\ calls = <<>>

\* C3: a pass whose listing call failed has considered 0 and deleted 0 records,
\* issued no delete call and logged a listing error; when it returns the loop
\* is Waiting unless a stop signal was received.
ListingFailureEndsPassEmpty ==
    [][ /\ (ErrorsOf("ListingError") # {})'
           => (/\ Len(listing) = 0 /\ deleted_count = 0 /\ calls = <<>>
               /\ errors = <<<<"ListingError", 0>>>>)'
        /\ (ErrorsOf("ListingError") # {} /\ phase = "end" /\ phase' = "returned")
           => (LoopState' = "Waiting" \/ stopSignal')
        /\ (ErrorsOf("ListingError") # {} /\ phase = "records" /\ phase' # phase)
           => (phase' = "end" /\ summary') ]_vars

\* C3 witness: a pass of the running scheduler ended after a failed listing
ListingFailureWitness ==
    /\ phase = "end"
    /\ ErrorsOf("ListingError") # {}
    /\ pc = "sched"
    /\ inventory # {}

\* C4: at most one cleanup pass is executing in every reachable state.
PassesSerialized == RunningPasses <= 1

\* C4 witness: a pass outlasted the interval, the fire time was skipped
PassOutlastsIntervalWitness ==
    /\ instances = 1
    /\ missed
    /\ phase = "records"
\* C5: when a stop signal has brought the loop to Stopped, the last pass, if
\* it had begun deleting, has issued the delete call of every record of its
\* listing that the policy marks (passes cut short by an exception of their
\* own aside).
StopNeverInterruptsPass ==
    (LoopState = "Stopped" /\ stopSignal /\ calls # <<>>
        /\ ErrorsOf("UnexpectedPassError") = {})
    => \A i \in Marked : listing[i] \in Called

\* C6 as claimed: the process exits only on a ConfigurationError.
OnlyConfigurationErrorFatal ==
    /\ pc = "exit" => connResult = "config"
    /\ LoopState = "Stopped" /\ pc # "exit" => stopSignal

\* C6 as amended: the process exits only from the startup connection test, on
\* missing parameters or a network failure, before any pass; after that the
\* loop stops on a stop signal alone.
OnlyStartupTestFatal ==
    /\ pc = "exit" => /\ connResult \in {"config", "network"}
                      /\ ~connRet
                      /\ phase = "idle"
                      /\ listCalls = 0 /\ calls = <<>>
    /\ pc \in {"killed", "shutdown", "stopped"} => stopSignal

\* C6 witness: the scheduler runs a pass after a pass that met a failure
FaultSurvivedWitness ==
    /\ pc = "sched"
    /\ instances = 1
    /\ prevPass = "faulty"
    /\ ~stopSignal

\* C7: once a pass is over the loop goes on to start another pass unless a
\* stop signal arrives, and nothing but a stop signal stops the loop.
PassEndLeadsToNextPass ==
    /\ (phase = "end" /\ PassAlive) ~> (phase = "list" \/ stopSignal)
    /\ [](pc \in {"killed", "shutdown", "stopped"} => stopSignal)
    /\ [][(pc \in {"first_pass", "sched"}) => (pc' # "exit")]_vars
    /\ [][phase = "end" /\ phase' = "returned" => (LoopState' = "Waiting" \/ stopSignal')]_vars

\* C7 witness: a pass of the scheduler was ended by an exception raised while
\* a record was evaluated
UnexpectedErrorWitness ==
    /\ phase = "end"
    /\ ErrorsOf("UnexpectedPassError") # {}
    /\ pc = "sched"
    /\ ~stopSignal

SecondPassDeletesNothing ==
    (phase = "end" /\ prevPass # "none") => deleted_count = 0

\* C9 as amended: a pass that follows a pass which listed, ran to its summary
\* and logged no error issues no delete call and deletes nothing.
PassAfterCleanPassDeletesNothing ==
    prevPass = "clean" => (deleted_count = 0 /\ calls = <<>> /\ Marked = {})

\* C9 witness: the pass before deleted a record, this pass listed the rest
SecondPassAfterCleanWitness ==
    /\ prevPass = "clean"
    /\ phase = "end"
    /\ summary
    /\ inventory # Hashes
    /\ Len(listing) > 0

\* C10: no delete call is issued for a record whose tag is in exclude_tags.
ExcludedNeverDeleted ==
    \A j \in 1..Len(calls) : torrents[calls[j].hash].tags \notin qb_config.exclude_tags

\* C10 witness: a pass ran to its end past a record at the ratio limit whose
\* tag is in both lists
ExcludedSkippedWitness ==
    /\ phase = "end"
    /\ summary
    /\ \E i \in 1..Len(listing) :
         /\ torrents[listing[i]].tags \in qb_config.exclude_tags
         /\ torrents[listing[i]].tags \in qb_config.include_tags
         /\ torrents[listing[i]].ratio >= qb_config.ratio_limit
         /\ listing[i] \notin Called
\* the record of the last verdict passes both tag gates
VerdictPassesGates ==
    /\ verdict[1].torrent.tags \notin qb_config.exclude_tags
    /\ qb_config.include_tags = {} \/ verdict[1].torrent.tags \in qb_config.include_tags

\* the record of the last verdict is at or over one of the two limits
VerdictOverLimit ==
    \/ verdict[1].torrent.ratio >= qb_config.ratio_limit
    \/ verdict[1].torrent.seeding_time >= qb_config.seeding_time_limit * SecondsPerMinute

\* C11: with a non-empty include_tags a record whose tag (the empty tag too)
\* is not in it is never to be deleted; an empty include_tags leaves the
\* verdict to the exclude list and the limits.
IncludeListIsAllowList ==
    verdict # <<>>
    => /\ (qb_config.include_tags # {}
             /\ verdict[1].torrent.tags \notin qb_config.include_tags)
          => ~verdict[1].ret
       /\ qb_config.include_tags = {}
          => (verdict[1].ret <=> (verdict[1].torrent.tags \notin qb_config.exclude_tags
                                 /\ VerdictOverLimit))

\* C11 witness: an untagged record over both limits, turned down by an
\* include list that does not hold the empty tag
UntaggedNotIncludedWitness ==
    /\ verdict # <<>>
    /\ verdict[1].torrent.tags = ""
    /\ qb_config.include_tags = {"movies"}
    /\ qb_config.exclude_tags = {}
    /\ verdict[1].torrent.ratio >= qb_config.ratio_limit
    /\ ~verdict[1].ret

\* C12: for a record that passes both tag gates the verdict is true exactly
\* when the ratio is at or over ratio_limit or the seeding time in minutes is
\* at or over seeding_time_limit; each limit alone suffices, at the limit too.
OrGateInclusive ==
    (verdict # <<>> /\ VerdictPassesGates)
    => /\ verdict[1].ret <=> VerdictOverLimit
       /\ verdict[1].torrent.ratio = qb_config.ratio_limit => verdict[1].ret
       /\ verdict[1].torrent.seeding_time = qb_config.seeding_time_limit * SecondsPerMinute
          => verdict[1].ret
       /\ (/\ verdict[1].torrent.ratio < qb_config.ratio_limit
           /\ verdict[1].torrent.seeding_time < qb_config.seeding_time_limit * SecondsPerMinute)
          => ~verdict[1].ret

\* C12 witness: the seeding time exactly at its limit, the ratio under its limit
SeedingAtLimitWitness ==
    /\ verdict # <<>>
    /\ VerdictPassesGates
    /\ verdict[1].torrent.seeding_time = qb_config.seeding_time_limit * SecondsPerMinute
    /\ verdict[1].torrent.ratio < qb_config.ratio_limit
    /\ verdict[1].ret
\* C13: with the url, the username or the password missing the process logs
\* the error and exits from the connection test: it never lists, never
\* deletes, never enters a pass and never starts the scheduler.
MissingParameterExitsBeforeLoop ==
    qb_config.params # ParamNames
    => /\ pc \in {"start", "exit"}
       /\ pc = "exit" => /\ errors = <<<<"ConfigurationError", 0>>>>
                         /\ connResult = "config"
                         /\ ~connRet
       /\ phase = "idle"
       /\ listCalls = 0
       /\ calls = <<>>
       /\ instances = 0
       /\ qb = None

\* C13 witness: main has returned for want of the password
MissingPasswordWitness ==
    /\ qb_config.params = ParamNames \ {"password"}
    /\ pc = "exit"
\* C14: a stop signal that finds the loop Waiting takes it out of the wait at
\* once and on to Stopped, with no further fire time awaited and no pass
\* started; and nothing changes once the loop is Stopped.
StopWhileWaitingReachesStopped ==
    /\ [][(pc = "sched" /\ ~stopSignal /\ stopSignal') => (pc' = "shutdown")]_vars
    /\ (stopSignal /\ LoopState = "Waiting") ~> (pc = "stopped")
    /\ [][stopSignal => (sinceFire' = sinceFire /\ instances' <= instances
                           /\ (phase # "list" => phase' # "list"))]_vars
    /\ [][(pc \in {"stopped", "killed"})
          => (pc' = pc /\ UNCHANGED <<passVars, instances>>)]_vars

\* C14 witness: the loop is Stopped and the only pass that ever ran is the
\* first one, so the signal came while the scheduler was waiting
StoppedFromWaitingWitness ==
    /\ pc = "stopped"
    /\ phase = "returned"
    /\ prevPass = "none"
    /\ instances = 0
\* C15: a pass that follows a pass whose connection attempt failed, or whose
\* listing call failed, makes a connection attempt of its own before it lists.
ReconnectAfterFailure ==
    [][ (/\ phase = "returned"
         /\ phase' # phase
         /\ \/ connResult \in {"config", "network", "auth"}
            \/ ErrorsOf("ListingError") # {})
        => (connResult' # "none") ]_vars
\* C16: a pass makes one listing call at most and hands the listed records to
\* the policy one by one in listing order, none twice, with at most one
\* delete call per record; a pass that reaches its summary has made exactly
\* one listing call and has evaluated every listed record.
OneListingOneEvaluationOneDelete ==
    /\ listCalls <= 1
    /\ evals = SubSeq(listing, 1, Len(evals))
    /\ \A i, j \in 1..Len(listing) : listing[i] = listing[j] => i = j
    /\ \A i, j \in 1..Len(calls) : calls[i].hash = calls[j].hash => i = j
    /\ Called \subseteq { evals[i] : i \in 1..Len(evals) }
    /\ summary => (listCalls = 1 /\ evals = listing)

\* C16 witness: a pass listed two records, one delete call failed, and the
\* pass ended with two delete calls
FailedDeleteNotRetriedWitness ==
    /\ summary
    /\ Len(listing) = 2
    /\ Len(calls) = 2
    /\ ErrorsOf("DeletionError") # {}
    /\ pc = "sched"
\* the delete calls of the pass that returned success: those with no
\* deletion error logged for their record
Succeeded ==
    { j \in 1..Len(calls) :
        \A i \in ErrorsOf("DeletionError") : errors[i][2] # calls[j].hash }

\* C17: deleted_count is the number of delete calls of the pass that
\* returned success, which is at most the number of listed records the
\* policy marks, which is at most the number of listed records.
DeletedCountCountsSuccesses ==
    /\ deleted_count = Cardinality(Succeeded)
    /\ deleted_count <= Cardinality(Marked)
    /\ Cardinality(Marked) <= Len(listing)
    /\ \A j \in Succeeded : calls[j].hash \notin inventory

\* C17 witness: a pass ended having listed two records, deleted the one the
\* policy marks and left the other alone
OneOfTwoDeletedWitness ==
    /\ phase = "end"
    /\ summary
    /\ Len(listing) = 2
    /\ Cardinality(Marked) = 1
    /\ deleted_count = 1
    /\ errors = <<>>

\* C18: every delete call carries the configured delete_files value, and no
\* step changes the configuration the cleaner was built with.
DeleteFilesFollowsConfig ==
    /\ [](\A j \in 1..Len(calls) : calls[j].delete_files = qb_config.delete_files)
    /\ [][qb_config' = qb_config]_vars

\* C18 witness: a pass after a faulty pass deleted with delete_files set
PurgingDeleteWitness ==
    /\ qb_config.delete_files
    /\ prevPass = "faulty"
    /\ Len(calls) > 0
    /\ calls[1].delete_files
\* C19: a delete call is issued only for a record that the listing call of
\* the same pass returned, that the server still holds, and that the policy,
\* asked in this pass, marks.
DeleteOnlyListedAndMarked ==
    [][ Len(calls') > Len(calls)
        => LET h == calls'[Len(calls')].hash IN
           /\ listCalls = 1
           /\ \E i \in 1..Len(listing) : listing[i] = h
           /\ h \in inventory
           /\ evals' = Append(evals, h)
           /\ should_delete_torrent(torrents[h]) ]_vars

\* C19 witness: a later pass listed the one record an earlier pass had left
\* on the server and issued its one delete call for it
LaterPassDeletesOnlyListedWitness ==
    /\ prevPass = "faulty"
    /\ Len(listing) = 1
    /\ Cardinality(inventory) < MaxTorrents
    /\ Len(calls) = 1
    /\ calls[1].hash = listing[1]

====
